---- MODULE Spec2Model ----
(***************************************************************************)
(* SimpleWindowService of the web workbench: the recently-opened history   *)
(* kept in the storage service under 'recently.opened', and the routing of *)
(* openWindow requests to a new or to the current browser window.          *)
(*                                                                         *)
(* An async method runs synchronously up to its first await; the rest is   *)
(* a continuation the event loop runs later.  Each such segment is one     *)
(* action here.                                                            *)
(***************************************************************************)
EXTENDS Integers, Sequences, FiniteSets, TLC

VARIABLES
    storage,        \* value of the storage service under RECENTLY_OPENED_KEY, global scope
    pending,        \* add/remove calls suspended at `await this.getRecentlyOpened()`, oldest first
    outcome,        \* how the promise of the history call settled last did settle
    writes,         \* the storageService.store calls of the add/remove continuation run last
    config,         \* the 'window' section of the configuration service
    request,        \* the openWindow call in progress
    navigations,    \* window.open / window.location.href assignments made by that call
    editorCalls     \* editorService.openEditors calls made by that call

vars == <<storage, pending, outcome, writes, config, request, navigations, editorCalls>>
historyVars == <<storage, pending, outcome, writes>>
routerVars == <<config, request, navigations, editorCalls>>

----------------------------------------------------------------------------
(* Bounds *)

\* size of the calls in flight, a call with n arguments counted as 1 + n
MaxInFlight == 3
\* targets of one openWindow request
MaxTargets == 2

----------------------------------------------------------------------------
(* URIs and the entries of the history *)

Paths == {"/a", "/b"}
WorkspaceIds == {"w1"}

URIs == [scheme : {"file"}, authority : {""}, path : Paths]

\* URI.toString(): scheme, authority and path
UriToString(u) == u.scheme \o "://" \o u.authority \o u.path

UriStrings == {UriToString(u) : u \in URIs}

\* a location that a history stored by an earlier session has, and that no
\* call of this one names
StoredOnlyURIs == [scheme : {"file"}, authority : {""}, path : {"/c"}]

\* URI.parse()
UriParse(s) == CHOOSE u \in URIs \cup StoredOnlyURIs : UriToString(u) = s

RecentFile(u) == [fileUri |-> u]
RecentFolder(u) == [folderUri |-> u]
RecentWorkspace(id, u) == [workspace |-> [id |-> id, configPath |-> u]]

isRecentFile(curr) == "fileUri" \in DOMAIN curr
isRecentFolder(curr) == "folderUri" \in DOMAIN curr

Recents ==
    {RecentFile(u) : u \in URIs} \cup {RecentFolder(u) : u \in URIs}
        \cup {RecentWorkspace(id, u) : id \in WorkspaceIds, u \in URIs}

EmptyRecentlyOpened == [workspaces |-> <<>>, files |-> <<>>]

SeqsUpTo(S, n) == UNION {[1..k -> S] : k \in 0..n}

----------------------------------------------------------------------------
(* The stored blob and its codec *)

\* storageService.get() of a key never stored
Undefined == [type |-> "undefined"]
\* a text that is not JSON
InvalidText == [type |-> "invalid"]

JSONstringify(value) == [type |-> "json", value |-> value]

\* JSON.parse throws a SyntaxError on a text that is not JSON
JSONparse(text) ==
    IF text.type = "json"
        THEN [threw |-> FALSE, value |-> text.value]
        ELSE [threw |-> TRUE, value |-> <<>>]

toStoreWorkspace(recent) ==
    IF isRecentFolder(recent)
        THEN [folderUri |-> UriToString(recent.folderUri)]
        ELSE [workspace |-> [id |-> recent.workspace.id,
                             configPath |-> UriToString(recent.workspace.configPath)]]

toStoreData(recents) ==
    [files |-> [i \in 1..Len(recents.files) |->
                    [fileUri |-> UriToString(recents.files[i].fileUri)]],
     workspaces |-> [i \in 1..Len(recents.workspaces) |->
                    toStoreWorkspace(recents.workspaces[i])]]

restoreWorkspace(stored) ==
    IF "folderUri" \in DOMAIN stored
        THEN RecentFolder(UriParse(stored.folderUri))
        ELSE RecentWorkspace(stored.workspace.id, UriParse(stored.workspace.configPath))

\* fields that are missing restore to empty lists
restoreRecentlyOpened(data) ==
    [workspaces |->
        IF "workspaces" \in DOMAIN data
            THEN [i \in 1..Len(data.workspaces) |-> restoreWorkspace(data.workspaces[i])]
            ELSE <<>>,
     files |->
        IF "files" \in DOMAIN data
            THEN [i \in 1..Len(data.files) |-> RecentFile(UriParse(data.files[i].fileUri))]
            ELSE <<>>]

----------------------------------------------------------------------------
(* SimpleWindowService: the history *)

\* The promise of getRecentlyOpened() on the stored value `raw`: it rejects when
\* JSON.parse throws, there is no try/catch around it.
getRecentlyOpened(raw) ==
    IF raw.type = "undefined"
        THEN [rejected |-> FALSE, value |-> EmptyRecentlyOpened]
        ELSE LET parsed == JSONparse(raw) IN
             IF parsed.threw
                 THEN [rejected |-> TRUE, value |-> EmptyRecentlyOpened]
                 ELSE [rejected |-> FALSE, value |-> restoreRecentlyOpened(parsed.value)]

workspaceLocation(w) ==
    IF isRecentFolder(w) THEN UriToString(w.folderUri)
                         ELSE UriToString(w.workspace.configPath)

somePath(paths, s) == \E i \in 1..Len(paths) : UriToString(paths[i]) = s

\* mutant: the workspaces list is not filtered
doRemoveFromFilesOnly(recentlyOpened, paths) ==
    [files |-> SelectSeq(recentlyOpened.files,
                    LAMBDA file : ~somePath(paths, UriToString(file.fileUri))),
     workspaces |-> recentlyOpened.workspaces]

\* mutant: nothing is removed
doRemoveNothing(recentlyOpened, paths) == recentlyOpened

\* mutant: only the first path is looked at
doRemoveFirstPath(recentlyOpened, paths) ==
    [files |-> SelectSeq(recentlyOpened.files,
                    LAMBDA file : paths # <<>> => UriToString(paths[1]) # UriToString(file.fileUri)),
     workspaces |-> SelectSeq(recentlyOpened.workspaces,
                    LAMBDA w : paths # <<>> => UriToString(paths[1]) # workspaceLocation(w))]

doRemoveFromRecentlyOpened(recentlyOpened, paths) ==
    [files |-> SelectSeq(recentlyOpened.files,
                    LAMBDA file : ~somePath(paths, UriToString(file.fileUri))),
     workspaces |-> SelectSeq(recentlyOpened.workspaces,
                    LAMBDA w : ~somePath(paths, workspaceLocation(w)))]

\* mutant: push instead of unshift
addRecentLast(recentlyOpened, recent) ==
    LET r == doRemoveFromRecentlyOpened(recentlyOpened,
                <<IF isRecentFile(recent) THEN recent.fileUri
                  ELSE IF isRecentFolder(recent) THEN recent.folderUri
                  ELSE recent.workspace.configPath>>)
    IN  IF isRecentFile(recent)
            THEN [r EXCEPT !.files = Append(@, recent)]
            ELSE [r EXCEPT !.workspaces = Append(@, recent)]

\* mutant: only the list the entry goes to is filtered
addRecentOwnList(recentlyOpened, recent) ==
    IF isRecentFile(recent)
        THEN [recentlyOpened EXCEPT !.files =
                <<recent>> \o doRemoveFromRecentlyOpened(recentlyOpened, <<recent.fileUri>>).files]
        ELSE [recentlyOpened EXCEPT !.workspaces =
                <<recent>> \o doRemoveFromRecentlyOpened(recentlyOpened,
                                <<UriParse(workspaceLocation(recent))>>).workspaces]

\* mutant: a list is cut to two entries after the unshift
addRecentCapped(recentlyOpened, recent) ==
    LET r == doRemoveFromRecentlyOpened(recentlyOpened,
                <<IF isRecentFile(recent) THEN recent.fileUri
                  ELSE IF isRecentFolder(recent) THEN recent.folderUri
                  ELSE recent.workspace.configPath>>)
        cut(list) == IF Len(list) > 2 THEN SubSeq(list, 1, 2) ELSE list
    IN  IF isRecentFile(recent)
            THEN [r EXCEPT !.files = cut(<<recent>> \o @)]
            ELSE [r EXCEPT !.workspaces = cut(<<recent>> \o @)]

\* the body of the forEach callback of addRecentlyOpened
addRecent(recentlyOpened, recent) ==
    IF isRecentFile(recent)
        THEN LET r == doRemoveFromRecentlyOpened(recentlyOpened, <<recent.fileUri>>)
             IN  [r EXCEPT !.files = <<recent>> \o @]
    ELSE IF isRecentFolder(recent)
        THEN LET r == doRemoveFromRecentlyOpened(recentlyOpened, <<recent.folderUri>>)
             IN  [r EXCEPT !.workspaces = <<recent>> \o @]
        ELSE LET r == doRemoveFromRecentlyOpened(recentlyOpened, <<recent.workspace.configPath>>)
             IN  [r EXCEPT !.workspaces = <<recent>> \o @]

RECURSIVE forEachRecent(_, _)
forEachRecent(recentlyOpened, recents) ==
    IF recents = <<>>
        THEN recentlyOpened
        ELSE forEachRecent(addRecent(recentlyOpened, Head(recents)), Tail(recents))

\* mutant: the workspaces are not saved
saveFilesOnly(data) == JSONstringify(toStoreData([data EXCEPT !.workspaces = <<>>]))

\* the value saveRecentlyOpened(data) stores under RECENTLY_OPENED_KEY
saveRecentlyOpened(data) == JSONstringify(toStoreData(data))

\* a call suspended at its await; `startup` tells the call of the constructor
Call(op, args, raw) ==
    [op |-> op, args |-> args, read |-> getRecentlyOpened(raw), startup |-> FALSE]

Weight(args) == 1 + Len(args)

RECURSIVE InFlight(_)
InFlight(calls) ==
    IF calls = <<>> THEN 0 ELSE Weight(Head(calls).args) + InFlight(Tail(calls))

\* addRecentlyOpened(recents) up to its await: the stored value is read now
AddRecentlyOpened(recents) ==
    /\ InFlight(pending) + Weight(recents) <= MaxInFlight
    /\ pending' = Append(pending, Call("add", recents, storage))
    /\ UNCHANGED <<storage, outcome, writes, routerVars>>

\* removeFromRecentlyOpened(paths) up to its await
RemoveFromRecentlyOpened(paths) ==
    /\ InFlight(pending) + Weight(paths) <= MaxInFlight
    /\ pending' = Append(pending, Call("remove", paths, storage))
    /\ UNCHANGED <<storage, outcome, writes, routerVars>>

\* mutant: the history is read again when the call continues
MutatedFromStored(call) ==
    IF call.op = "add"
        THEN forEachRecent(getRecentlyOpened(storage).value, call.args)
        ELSE doRemoveFromRecentlyOpened(getRecentlyOpened(storage).value, call.args)

\* what the continuation of the call leaves in `recentlyOpened` before it saves
Mutated(call) ==
    IF call.op = "add"
        THEN forEachRecent(call.read.value, call.args)
        ELSE doRemoveFromRecentlyOpened(call.read.value, call.args)

RECENTLY_OPENED_KEY == "recently.opened"

\* mutant: nothing is stored when the call has left the history as it was
storeCallsIfChanged(call) ==
    IF Mutated(call) = call.read.value
        THEN <<>>
        ELSE <<[key |-> RECENTLY_OPENED_KEY, value |-> saveRecentlyOpened(Mutated(call)),
                scope |-> "GLOBAL", threw |-> FALSE]>>

\* the storageService.store calls of the continuation of a call whose read
\* resolved: `return this.saveRecentlyOpened(recentlyOpened)`, once, after the loop
storeCalls(call) ==
    <<[key |-> RECENTLY_OPENED_KEY, value |-> saveRecentlyOpened(Mutated(call)),
       scope |-> "GLOBAL", threw |-> FALSE]>>

\* the value under RECENTLY_OPENED_KEY after the store calls `stores`: that of
\* the last call, when it did not throw
stored(raw, stores) ==
    IF stores = <<>> \/ stores[Len(stores)].threw THEN raw ELSE stores[Len(stores)].value

\* the continuation of the oldest suspended call: it throws when the read
\* rejected, and saves what it has made of the history otherwise
Resume(call) ==
    /\ pending' = Tail(pending)
    /\ IF call.read.rejected
          THEN /\ outcome' = "rejected"
               /\ writes' = <<>>
               /\ UNCHANGED storage
          ELSE /\ writes' = storeCalls(call)
               /\ storage' = stored(storage, storeCalls(call))
               /\ outcome' = "resolved"
    /\ UNCHANGED routerVars

\* mutant: the exception of the store call is caught and dropped
StoreThrowsCaught(call) ==
    /\ ~call.read.rejected
    /\ pending' = Tail(pending)
    /\ writes' = [storeCalls(call) EXCEPT ![1].threw = TRUE]
    /\ storage' = stored(storage, writes')
    /\ outcome' = "resolved"
    /\ UNCHANGED routerVars

\* the continuation of the oldest suspended call when storageService.store
\* throws: saveRecentlyOpened rejects, and with it the promise of the call
StoreThrows(call) ==
    /\ ~call.read.rejected
    /\ pending' = Tail(pending)
    /\ writes' = [storeCalls(call) EXCEPT ![1].threw = TRUE]
    /\ storage' = stored(storage, writes')
    /\ outcome' = "rejected"
    /\ UNCHANGED routerVars

\* addRecentlyOpened after its await
ResumeAdd ==
    /\ pending # <<>>
    /\ Head(pending).op = "add"
    /\ Resume(Head(pending))

\* removeFromRecentlyOpened after its await
ResumeRemove ==
    /\ pending # <<>>
    /\ Head(pending).op = "remove"
    /\ Resume(Head(pending))

\* addRecentlyOpened after its await, the store call throwing
AddStoreThrows ==
    /\ pending # <<>>
    /\ Head(pending).op = "add"
    /\ StoreThrows(Head(pending))

\* removeFromRecentlyOpened after its await, the store call throwing
RemoveStoreThrows ==
    /\ pending # <<>>
    /\ Head(pending).op = "remove"
    /\ StoreThrows(Head(pending))

\* a getRecentlyOpened() call of a client
GetRecentlyOpened ==
    /\ outcome' = IF getRecentlyOpened(storage).rejected THEN "rejected" ELSE "resolved"
    /\ UNCHANGED <<storage, pending, writes, routerVars>>

----------------------------------------------------------------------------
(* SimpleWindowService: openWindow *)

\* document.location.origin
Origin == "https://host"

\* option flags as a caller may pass them: true, false, or left out
Flags == {"true", "false", "undefined"}
Truthy(flag) == flag = "true"

OpenSettings == [forceNewWindow : Flags, forceReuseWindow : Flags]

\* the default of the parameter: `_options: IOpenSettings = {}`
DefaultOpenSettings == [forceNewWindow |-> "undefined", forceReuseWindow |-> "undefined"]

\* getValue('window'): no section at all, or a section whose openFoldersInNewWindow
\* is 'on', 'off', 'default' or not set
WindowSettings ==
    {Undefined} \cup
        {[openFoldersInNewWindow |-> v] : v \in {"undefined", "default", "on", "off"}}

\* mutant: the configuration is looked at first, the force flags after it
shouldOpenNewWindowConfigFirst(_options, windowConfig) ==
    LET options == IF _options = Undefined THEN DefaultOpenSettings ELSE _options
    IN  IF windowConfig # Undefined /\ windowConfig.openFoldersInNewWindow \in {"on", "off"}
            THEN windowConfig.openFoldersInNewWindow = "on"
            ELSE Truthy(options.forceNewWindow) /\ ~Truthy(options.forceReuseWindow)

\* mutant: forceReuseWindow does not hold back forceNewWindow
shouldOpenNewWindowForceWins(_options, windowConfig) ==
    LET options == IF _options = Undefined THEN DefaultOpenSettings ELSE _options
    IN  IF Truthy(options.forceNewWindow) THEN TRUE
        ELSE IF Truthy(options.forceReuseWindow) THEN FALSE
        ELSE windowConfig # Undefined /\ windowConfig.openFoldersInNewWindow = "on"

shouldOpenNewWindow(_options, windowConfig) ==
    LET options == IF _options = Undefined THEN DefaultOpenSettings ELSE _options
        openFolderInNewWindowConfig ==
            IF windowConfig # Undefined /\ windowConfig.openFoldersInNewWindow # "undefined"
                THEN windowConfig.openFoldersInNewWindow
                ELSE "default"
        openFolderInNewWindow ==
            Truthy(options.forceNewWindow) /\ ~Truthy(options.forceReuseWindow)
    IN  IF /\ ~Truthy(options.forceNewWindow)
           /\ ~Truthy(options.forceReuseWindow)
           /\ openFolderInNewWindowConfig \in {"on", "off"}
            THEN openFolderInNewWindowConfig = "on"
            ELSE openFolderInNewWindow

\* IURIToOpen
UrisToOpen ==
    {[folderUri |-> u] : u \in URIs} \cup {[workspaceUri |-> u] : u \in URIs}
        \cup {[fileUri |-> u] : u \in URIs}

\* window.open(newAddress) or window.location.href = newAddress
Navigate(openFolderInNewWindow, newAddress) ==
    [how |-> IF openFolderInNewWindow THEN "window.open" ELSE "location.href",
     address |-> newAddress]

\* what one pass of the loop body does before its `if ('fileUri' in uri)`
navigateTo(uri, openFolderInNewWindow) ==
    (IF "folderUri" \in DOMAIN uri
        THEN <<Navigate(openFolderInNewWindow, Origin \o "/?folder=" \o uri.folderUri.path)>>
        ELSE <<>>)
    \o
    (IF "workspaceUri" \in DOMAIN uri
        THEN <<Navigate(openFolderInNewWindow, Origin \o "/?workspace=" \o uri.workspaceUri.path)>>
        ELSE <<>>)

\* The loop from index i on, up to the next await or the end of _uris: the
\* index it stops at and the navigations made so far.
RECURSIVE runLoop(_, _, _, _)
runLoop(_uris, i, openFolderInNewWindow, navs) ==
    IF i > Len(_uris)
        THEN [i |-> i, navs |-> navs]
        ELSE LET done == navs \o navigateTo(_uris[i], openFolderInNewWindow)
             IN  IF "fileUri" \in DOMAIN _uris[i]
                    THEN [i |-> i, navs |-> done]
                    ELSE runLoop(_uris, i + 1, openFolderInNewWindow, done)

NoRequest == [state |-> "idle"]

Running(_uris, _options, windowConfig, openFolderInNewWindow, i) ==
    [state |-> IF i > Len(_uris) THEN "resolved" ELSE "awaiting",
     uris |-> _uris, options |-> _options, windowConfig |-> windowConfig,
     openFolderInNewWindow |-> openFolderInNewWindow, i |-> i]

\* mutant: openWindow issues an addRecentlyOpened for its first target when
\* that is a folder
OpenWindowRecording(_uris, _options) ==
    /\ request = NoRequest
    /\ LET openFolderInNewWindow == shouldOpenNewWindow(_options, config)
           r == runLoop(_uris, 1, openFolderInNewWindow, <<>>)
       IN  /\ request' = Running(_uris, _options, config, openFolderInNewWindow, r.i)
           /\ navigations' = r.navs
    /\ editorCalls' = <<>>
    /\ pending' = IF _uris # <<>> /\ "folderUri" \in DOMAIN _uris[1]
                      THEN Append(pending, Call("add", <<RecentFolder(_uris[1].folderUri)>>, storage))
                      ELSE pending
    /\ UNCHANGED <<config, storage, outcome, writes>>

\* openWindow(_uris, _options) up to its first await, or to its end when no
\* target is a file.  One call at a time; the two logs are those of the call.
OpenWindow(_uris, _options) ==
    /\ request = NoRequest
    /\ LET openFolderInNewWindow == shouldOpenNewWindow(_options, config)
           r == runLoop(_uris, 1, openFolderInNewWindow, <<>>)
       IN  /\ request' = Running(_uris, _options, config, openFolderInNewWindow, r.i)
           /\ navigations' = r.navs
    /\ editorCalls' = <<>>
    /\ UNCHANGED <<config, historyVars>>

\* mutant: the decision is taken again, from the configuration as it is when
\* the loop goes on
PathsToEditorsResolvedRedecides ==
    /\ request.state = "awaiting"
    /\ LET r == runLoop(request.uris, request.i + 1,
                        shouldOpenNewWindow(request.options, config), navigations)
       IN  /\ request' = Running(request.uris, request.options, request.windowConfig,
                                 request.openFolderInNewWindow, r.i)
           /\ navigations' = r.navs
    /\ editorCalls' = Append(editorCalls, <<request.uris[request.i].fileUri>>)
    /\ UNCHANGED <<config, historyVars>>

\* pathsToEditors([uri]) resolved: openEditors(inputs), then the loop goes on
PathsToEditorsResolved ==
    /\ request.state = "awaiting"
    /\ LET r == runLoop(request.uris, request.i + 1, request.openFolderInNewWindow, navigations)
       IN  /\ request' = Running(request.uris, request.options, request.windowConfig,
                                 request.openFolderInNewWindow, r.i)
           /\ navigations' = r.navs
    /\ editorCalls' = Append(editorCalls, <<request.uris[request.i].fileUri>>)
    /\ UNCHANGED <<config, historyVars>>

\* pathsToEditors([uri]) rejected: the await throws, nothing catches it and the
\* promise of openWindow rejects
PathsToEditorsRejected ==
    /\ request.state = "awaiting"
    /\ request' = [request EXCEPT !.state = "rejected"]
    /\ UNCHANGED <<config, navigations, editorCalls, historyVars>>

\* the caller has taken the settled promise; the next call starts afresh
Settled ==
    /\ request.state \in {"resolved", "rejected"}
    /\ request' = NoRequest
    /\ navigations' = <<>>
    /\ editorCalls' = <<>>
    /\ UNCHANGED <<config, historyVars>>

\* the user changes the setting
UpdateConfiguration(windowConfig) ==
    /\ config # windowConfig
    /\ config' = windowConfig
    /\ UNCHANGED <<request, navigations, editorCalls, historyVars>>

----------------------------------------------------------------------------
(* Construction *)

Workspaces ==
    {[state |-> "EMPTY"]}
        \cup {[state |-> "FOLDER", folder |-> u] : u \in URIs}
        \cup {[state |-> "WORKSPACE", id |-> id, configuration |-> u] :
                    id \in WorkspaceIds, u \in URIs}

\* the calls the constructor leaves suspended: addWorkspaceToRecentlyOpened()
addWorkspaceToRecentlyOpened(ws, raw) ==
    IF ws.state = "FOLDER"
        THEN <<[Call("add", <<RecentFolder(ws.folder)>>, raw) EXCEPT !.startup = TRUE]>>
    ELSE IF ws.state = "WORKSPACE"
        THEN <<[Call("add", <<RecentWorkspace(ws.id, ws.configuration)>>, raw)
                    EXCEPT !.startup = TRUE]>>
        ELSE <<>>

\* what a session may find stored: nothing, a text that is not JSON, JSON of
\* another shape, or what an earlier session saved
StoredBefore ==
    {Undefined, InvalidText, JSONstringify([version |-> 1])}
        \cup {saveRecentlyOpened(forEachRecent(EmptyRecentlyOpened, recents)) :
                    recents \in SeqsUpTo(Recents, 1)}

\* the state the constructor leaves
Constructed(raw, ws) ==
    /\ storage = raw
    /\ pending = addWorkspaceToRecentlyOpened(ws, raw)
    /\ outcome = "none"
    /\ writes = <<>>
    /\ config = Undefined
    /\ request = NoRequest
    /\ navigations = <<>>
    /\ editorCalls = <<>>

\* a first session: nothing is stored yet
Init == \E ws \in Workspaces : Constructed(Undefined, ws)

\* a later session
InitStored == \E raw \in StoredBefore, ws \in Workspaces : Constructed(raw, ws)

\* a first session on no folder and no workspace
InitEmpty == Constructed(Undefined, [state |-> "EMPTY"])

\* what an earlier session, on other locations, has saved: one entry at a
\* location of its own, in either list
StoredElsewhere ==
    {saveRecentlyOpened(forEachRecent(EmptyRecentlyOpened, <<recent>>)) :
        recent \in {RecentFile(u) : u \in StoredOnlyURIs}
                        \cup {RecentFolder(u) : u \in StoredOnlyURIs}}

\* a later session that finds such a history
InitRestored == \E raw \in StoredElsewhere, ws \in Workspaces : Constructed(raw, ws)

\* the arguments a further call may carry
Room == MaxInFlight - InFlight(pending) - 1

NextHistory ==
    \/ \E recents \in SeqsUpTo(Recents, Room) : AddRecentlyOpened(recents)
    \/ \E paths \in SeqsUpTo(URIs, Room) : RemoveFromRecentlyOpened(paths)
    \/ ResumeAdd
    \/ ResumeRemove
    \/ GetRecentlyOpened

NextRouter ==
    \/ \E _uris \in SeqsUpTo(UrisToOpen, MaxTargets), _options \in OpenSettings \cup {Undefined} :
            OpenWindow(_uris, _options)
    \/ PathsToEditorsResolved
    \/ PathsToEditorsRejected
    \/ Settled
    \/ \E windowConfig \in WindowSettings : UpdateConfiguration(windowConfig)

Next == NextHistory \/ NextRouter

Spec == Init /\ [][Next]_vars

\* The history calls touch storage, pending, outcome and writes only, openWindow and the
\* configuration touch the other variables only: each part is checked on its own.
SpecHistory == Init /\ [][NextHistory]_vars
SpecStored == InitStored /\ [][NextHistory]_vars
SpecRouter == InitEmpty /\ [][NextRouter]_vars

\* the history calls of a caller that awaits each call before it issues the next
NextAwaited ==
    \/ pending = <<>> /\ \E recents \in SeqsUpTo(Recents, Room) : AddRecentlyOpened(recents)
    \/ pending = <<>> /\ \E paths \in SeqsUpTo(URIs, Room) : RemoveFromRecentlyOpened(paths)
    \/ ResumeAdd
    \/ ResumeRemove
    \/ GetRecentlyOpened

\* the same under a storage service whose store call may throw
NextStoreThrows ==
    \/ NextAwaited
    \/ AddStoreThrows
    \/ RemoveStoreThrows

SpecStoreThrows == Init /\ [][NextStoreThrows]_vars

\* awaited calls on a history that has an entry none of them names
SpecRestored == InitRestored /\ [][NextAwaited]_vars

----------------------------------------------------------------------------
(* Vocabulary of the properties *)

A == CHOOSE u \in URIs : u.path = "/a"
B == CHOOSE u \in URIs : u.path = "/b"
C == CHOOSE u \in StoredOnlyURIs : u.path = "/c"

\* the history a getRecentlyOpened() would return now
History == getRecentlyOpened(storage).value

location(recent) ==
    IF isRecentFile(recent) THEN UriToString(recent.fileUri) ELSE workspaceLocation(recent)

locations(list) == {location(list[i]) : i \in 1..Len(list)}

\* the list an entry belongs to
listOf(h, recent) == IF isRecentFile(recent) THEN h.files ELSE h.workspaces

RECURSIVE Reverse(_)
Reverse(list) == IF list = <<>> THEN <<>> ELSE Append(Reverse(Tail(list)), Head(list))

\* `list` without the entries at one of the locations `locs`
RECURSIVE Without(_, _)
Without(list, locs) ==
    IF list = <<>> THEN <<>>
    ELSE IF location(Head(list)) \in locs THEN Without(Tail(list), locs)
    ELSE <<Head(list)>> \o Without(Tail(list), locs)

NoTwoAt(list) ==
    \A i, j \in 1..Len(list) : location(list[i]) = location(list[j]) => i = j

\* this step is the continuation of the oldest suspended call, an `op` that read a history
Continues(op) ==
    /\ pending # <<>>
    /\ pending' = Tail(pending)
    /\ Head(pending).op = op
    /\ ~Head(pending).read.rejected
    /\ outcome' = "resolved"

\* the call that step continues, the history it read and the history stored after it
TheCall == Head(pending)
Before == Head(pending).read.value
After == getRecentlyOpened(storage').value

----------------------------------------------------------------------------
(* C1 *)

\* C1: starting from nothing stored, whatever add and remove calls were made, no
\* two entries of files have the same fileUri string and no two entries of
\* workspaces have the same location string (folderUri or workspace.configPath).
C1_Unique == NoTwoAt(History.files) /\ NoTwoAt(History.workspaces)

\* a folder and a workspace side by side, after a call has settled
C1_Witness ==
    /\ outcome = "resolved"
    /\ pending = <<>>
    /\ History.workspaces = <<RecentWorkspace("w1", B), RecentFolder(A)>>

(* C2 *)

sameList(recents) ==
    \/ \A i \in 1..Len(recents) : isRecentFile(recents[i])
    \/ \A i \in 1..Len(recents) : ~isRecentFile(recents[i])

\* C2: an add of entries e1..en with pairwise distinct locations that all go to
\* the same list leaves in that list en..e1 followed by the entries the call
\* found there whose locations are not among those of e1..en.
C2_BatchOrder ==
    [][(/\ Continues("add")
        /\ TheCall.args # <<>>
        /\ NoTwoAt(TheCall.args)
        /\ sameList(TheCall.args))
        => listOf(After, TheCall.args[1])
              = Reverse(TheCall.args)
                    \o Without(listOf(Before, TheCall.args[1]), locations(TheCall.args))]_vars

\* add([File a, File b]) in flight on a history that holds a file entry only, at b
C2_Witness ==
    /\ Len(pending) = 1
    /\ pending[1].op = "add"
    /\ pending[1].args = <<RecentFile(A), RecentFile(B)>>
    /\ pending[1].read.value = [workspaces |-> <<>>, files |-> <<RecentFile(B)>>]

(* C3 *)

\* C3: after an add, the location of the entry added last is held by exactly
\* one entry of the history, the entry added, at the front of its list; when
\* the add is of this one entry, the entries behind it are those the call
\* found in that list at other locations, in their order.
C3_MoveToFront ==
    [][(Continues("add") /\ TheCall.args # <<>>)
        => LET last == TheCall.args[Len(TheCall.args)]
               list == listOf(After, last)
           IN  /\ list # <<>>
               /\ Head(list) = last
               /\ location(last) \notin locations(Tail(list))
               /\ isRecentFile(last) => location(last) \notin locations(After.workspaces)
               /\ ~isRecentFile(last) => location(last) \notin locations(After.files)
               /\ Len(TheCall.args) = 1
                    => Tail(list) = Without(listOf(Before, last), {location(last)})]_vars

\* add([Folder a]) has been saved, and add([Folder b, Folder a]) is in flight on it
C3_Witness ==
    /\ Len(pending) = 1
    /\ pending[1].op = "add"
    /\ pending[1].args = <<RecentFolder(B), RecentFolder(A)>>
    /\ pending[1].read.value = [workspaces |-> <<RecentFolder(A)>>, files |-> <<>>]
    /\ History = pending[1].read.value

(* C4 *)

\* C4: a remove leaves both lists as the call found them when none of its paths
\* is the location of an entry; otherwise each list is left without the entries
\* at one of the paths, the others in their order, so that a list holding none
\* of the paths is left as it was.
C4_Removal ==
    [][Continues("remove")
        => LET locs == {UriToString(TheCall.args[i]) : i \in 1..Len(TheCall.args)}
           IN  /\ After.files = Without(Before.files, locs)
               /\ After.workspaces = Without(Before.workspaces, locs)
               /\ locs \cap locations(Before.files) = {} => After.files = Before.files
               /\ locs \cap locations(Before.workspaces) = {}
                    => After.workspaces = Before.workspaces]_vars

\* a remove in flight that found its path in files and another entry in workspaces
C4_Witness ==
    /\ Len(pending) = 1
    /\ pending[1].op = "remove"
    /\ pending[1].args = <<A>>
    /\ pending[1].read.value = [workspaces |-> <<RecentFolder(B)>>, files |-> <<RecentFile(A)>>]

(* C5 *)

flagsOf(_options) == IF _options = Undefined THEN DefaultOpenSettings ELSE _options
settingOf(windowConfig) ==
    IF windowConfig = Undefined THEN "unset"
    ELSE IF windowConfig.openFoldersInNewWindow = "undefined" THEN "unset"
    ELSE windowConfig.openFoldersInNewWindow

\* the table of the routing decision
Table(forceNewWindow, forceReuseWindow, setting) ==
    IF forceNewWindow = "true" /\ forceReuseWindow # "true" THEN TRUE
    ELSE IF forceNewWindow # "true" /\ forceReuseWindow # "true" /\ setting = "on" THEN TRUE
    ELSE FALSE

\* C6: the decision of an openWindow call is true when forceNewWindow is set and
\* forceReuseWindow is not, else, when neither is set, true for the setting
\* 'on' and false for 'off', and false in every other case; with a force flag
\* set it is the same for every setting.
C6_RoutingTable ==
    request # NoRequest
        => LET o == flagsOf(request.options) IN
           /\ request.openFolderInNewWindow
                = Table(o.forceNewWindow, o.forceReuseWindow, settingOf(request.windowConfig))
           /\ (o.forceNewWindow = "true" \/ o.forceReuseWindow = "true")
                => \A w \in WindowSettings :
                        shouldOpenNewWindow(request.options, w) = request.openFolderInNewWindow

\* forceReuseWindow under the setting 'on': the current window
C6_Witness ==
    /\ request # NoRequest
    /\ request.options = [forceNewWindow |-> "undefined", forceReuseWindow |-> "true"]
    /\ request.windowConfig = [openFoldersInNewWindow |-> "on"]
    /\ ~request.openFolderInNewWindow

(* C7 *)

bothForced ==
    /\ request # NoRequest
    /\ request.options # Undefined
    /\ request.options.forceNewWindow = "true"
    /\ request.options.forceReuseWindow = "true"

\* C7 as claimed: with forceNewWindow and forceReuseWindow both true the
\* decision is the new window, whatever the setting.
C7_ForceNewWins == bothForced => request.openFolderInNewWindow

\* C7, amended: with forceNewWindow and forceReuseWindow both true the decision
\* is the current window, whatever the setting: forceReuseWindow holds back
\* forceNewWindow.
C7_ForceReuseWins == bothForced => ~request.openFolderInNewWindow

\* both flags true under the setting 'on'
C7_Witness == bothForced /\ request.windowConfig = [openFoldersInNewWindow |-> "on"]

(* C8 *)

isFileTarget(uri) == "fileUri" \in DOMAIN uri

\* the navigation a folder or workspace target asks for
navigationOf(uri, openFolderInNewWindow) ==
    [how |-> IF openFolderInNewWindow THEN "window.open" ELSE "location.href",
     address |-> IF "folderUri" \in DOMAIN uri
                    THEN Origin \o "/?folder=" \o uri.folderUri.path
                    ELSE Origin \o "/?workspace=" \o uri.workspaceUri.path]

RECURSIVE navigationsOf(_, _)
navigationsOf(uris, openFolderInNewWindow) ==
    IF uris = <<>> THEN <<>>
    ELSE IF isFileTarget(Head(uris)) THEN navigationsOf(Tail(uris), openFolderInNewWindow)
    ELSE <<navigationOf(Head(uris), openFolderInNewWindow)>>
            \o navigationsOf(Tail(uris), openFolderInNewWindow)

RECURSIVE filesOf(_)
filesOf(uris) ==
    IF uris = <<>> THEN <<>>
    ELSE IF isFileTarget(Head(uris)) THEN <<<<Head(uris).fileUri>>>> \o filesOf(Tail(uris))
    ELSE filesOf(Tail(uris))

settled == request.state \in {"resolved", "rejected"}

\* C8: when an openWindow call has settled, the navigations it made are, in the
\* order of the request, one for each folder or workspace target: to the
\* address of the target, in a new window when the decision is true and in the
\* current window otherwise.
C8_OneNavigationEach ==
    settled => navigations = navigationsOf(request.uris, request.openFolderInNewWindow)

(* C9 *)

\* C9: when an openWindow call has settled, every file target of the request
\* has been handed on for the editor, in the order of the request (the loop
\* came to it), and the navigations made are those of the other targets.
C9_EveryFileForwarded ==
    settled =>
        /\ \A k \in 1..Len(request.uris) : isFileTarget(request.uris[k]) => k <= request.i
        /\ \A k \in 1..Len(navigations) :
                \E j \in 1..Len(request.uris) :
                    /\ ~isFileTarget(request.uris[j])
                    /\ navigations[k] = navigationOf(request.uris[j], request.openFolderInNewWindow)

(* C10 *)

\* C10: no getRecentlyOpened, add or remove call rejects, whatever is stored
\* under 'recently.opened': a text that cannot be decoded reads as the empty history.
C10_DecodeRecovered == outcome # "rejected"

(* C11 *)

\* C11: a target that fails does not end the request: when an openWindow call
\* has settled, rejected or not, the loop has come to every target of it.
C11_LaterTargetsDispatched ==
    settled => \A k \in 1..Len(request.uris) : k <= request.i

(* C12 *)

\* C12: the continuation of an add or remove call makes exactly one store
\* call, under 'recently.opened' in the global scope, of a value that decodes
\* to the whole history the call has made, also when the call changed nothing;
\* that value is what is stored afterwards.  A getRecentlyOpened call makes no
\* store call and leaves the stored value as it is.
C12_OneWrite ==
    [][/\ \A op \in {"add", "remove"} :
            Continues(op) =>
                /\ Len(writes') = 1
                /\ writes'[1].key = "recently.opened"
                /\ writes'[1].scope = "GLOBAL"
                /\ getRecentlyOpened(writes'[1].value).value = Mutated(TheCall)
                /\ storage' = writes'[1].value
       /\ pending' = pending => writes' = writes /\ storage' = storage]_vars

\* a call that changed nothing has written the empty history
C12_Witness ==
    /\ Len(writes) = 1
    /\ outcome = "resolved"
    /\ History = EmptyRecentlyOpened

(* C13 *)

\* C13: the calls of one caller take effect in the order they were issued, each
\* on the history the call before it has left, also when a call is issued
\* before the promise of the one before it has settled: the history stored by
\* a continuing call is its mutation of the history stored just before.
C13_ProgramOrder ==
    [][\A op \in {"add", "remove"} :
            Continues(op) =>
                After = Mutated([TheCall EXCEPT !.read = getRecentlyOpened(storage)])]_vars

(* C14 *)

\* the oldest suspended call has read before a call that overlaps it has written
overlapped == pending # <<>> /\ Head(pending).read # getRecentlyOpened(storage)

C15_OneDecision ==
    request # NoRequest =>
        /\ request.openFolderInNewWindow =
                shouldOpenNewWindow(request.options, request.windowConfig)
        /\ \A k \in 1..Len(navigations) :
                navigations[k].how =
                    IF request.openFolderInNewWindow THEN "window.open" ELSE "location.href"

\* the call, made with one decision, is suspended on a file target with a
\* folder or workspace target to come, and the configuration is now one that
\* would give the other decision
C15_Witness ==
    /\ request # NoRequest
    /\ request.state = "awaiting"
    /\ request.i = 1
    /\ Len(request.uris) = 2
    /\ ~isFileTarget(request.uris[2])
    /\ config # request.windowConfig
    /\ shouldOpenNewWindow(request.options, config) # request.openFolderInNewWindow

(* C16 *)

\* a step in which the store call of a continuing add or remove call throws
storeThrew ==
    /\ pending # <<>>
    /\ pending' = Tail(pending)
    /\ writes' # <<>>
    /\ writes'[Len(writes')].threw

\* C16 as claimed: when the store call of an add or remove call throws, the
\* call rejects and a getRecentlyOpened that follows returns the history with
\* the mutation of the call.
C16_MutationKept ==
    [][storeThrew => outcome' = "rejected" /\ After = Mutated(TheCall)]_vars

\* C16, amended: when the store call of an add or remove call throws, the call
\* rejects and a getRecentlyOpened that follows returns the history as it was
\* stored before the call continued: nothing of the mutation is kept.
C16_MutationLost ==
    [][storeThrew => outcome' = "rejected" /\ After = History]_vars

\* the store call of an add of the folder A on the empty history has thrown
C16_Witness ==
    /\ writes # <<>>
    /\ writes[1].threw
    /\ getRecentlyOpened(writes[1].value).value =
            [workspaces |-> <<RecentFolder(A)>>, files |-> <<>>]
    /\ History = EmptyRecentlyOpened

(* C17 *)

\* the location a folder or workspace target opens
targetLocation(uri) ==
    IF "folderUri" \in DOMAIN uri
        THEN UriToString(uri.folderUri)
        ELSE UriToString(uri.workspaceUri)

C18_StartupRecorded ==
    [][pending # <<>> /\ Head(pending).startup /\ pending' = Tail(pending) =>
            /\ After.workspaces # <<>>
            /\ Head(After.workspaces) = Head(pending).args[1]
            /\ After.files = History.files]_vars

(* C19 *)

\* C19: starting from nothing stored, whatever add and remove calls were made,
\* no location string is that of an entry of files and of an entry of
\* workspaces at once: an add takes the entries of its location out of both
\* lists before it puts the new entry in.
C19_OneList == locations(History.files) \cap locations(History.workspaces) = {}

\* an add of the file A is suspended on a history that has the folder A
C19_Witness ==
    /\ pending # <<>>
    /\ pending[1].op = "add"
    /\ pending[1].args = <<RecentFile(A)>>
    /\ pending[1].read.value.workspaces = <<RecentFolder(A)>>

(* C20 *)

\* the locations an add or remove call names
named(call) ==
    IF call.op = "add"
        THEN locations(call.args)
        ELSE {UriToString(call.args[i]) : i \in 1..Len(call.args)}

\* C20: an add or remove call leaves the entries at locations it does not name
\* as they are: in each list, the entries at other locations are after the
\* call those the call found, all of them and in the same order.
C20_Stable ==
    [][\A op \in {"add", "remove"} :
            Continues(op) =>
                /\ Without(After.files, named(TheCall)) = Without(Before.files, named(TheCall))
                /\ Without(After.workspaces, named(TheCall)) =
                        Without(Before.workspaces, named(TheCall))]_vars

\* an add of the file B is suspended on a history whose files are A and C
C20_Witness ==
    /\ pending # <<>>
    /\ pending[1].op = "add"
    /\ pending[1].args = <<RecentFile(B)>>
    /\ pending[1].read.value.files = <<RecentFile(A), RecentFile(C)>>

====
